---- MODULE Spec2Model ----
(***************************************************************************)
(* A model of liblastfm's ScrobbleCache (src/src/ScrobbleCache.cpp): the   *)
(* per-user, disk-persisted list of tracks awaiting submission.            *)
(*                                                                         *)
(* Time is counted in whole months; month Epoch2003 is 2003-01-01.         *)
(* Strings that the code lower-cases are sequences of characters, so that  *)
(* toLower is computed and not assumed.                                    *)
(***************************************************************************)
EXTENDS Integers, Sequences, FiniteSets, TLC

VARIABLES now, files, cache, last

vars == <<now, files, cache, last>>

(***************************************************************************)
(* Bounds of the model.                                                    *)
(***************************************************************************)
MaxTime == 3
MaxStored == 3
MaxBatch == 3
MaxTargets == 2

(***************************************************************************)
(* Program constants.  kScrobbleMinLength is ScrobblePoint's minimum       *)
(* length in seconds (ScrobblePoint.h); Epoch2003 is the month of          *)
(* 2003-01-01.                                                             *)
(***************************************************************************)
kScrobbleMinLength == 31
Epoch2003 == 1

NoTime == -1
Clock == Epoch2003..MaxTime

(***************************************************************************)
(* QString::toLower over the characters the model uses.                    *)
(***************************************************************************)
UpperChars == <<"A", "B", "I", "K", "N", "O", "R", "S", "T", "U", "W">>
LowerChars == <<"a", "b", "i", "k", "n", "o", "r", "s", "t", "u", "w">>

toLowerChar(ch) ==
    IF \E k \in 1..Len(UpperChars) : UpperChars[k] = ch
    THEN LowerChars[CHOOSE k \in 1..Len(UpperChars) : UpperChars[k] = ch]
    ELSE ch

toLower(s) == [k \in 1..Len(s) |-> toLowerChar(s[k])]

(***************************************************************************)
(* Artist names.  NoArtist is the null artist, whose name() is empty.      *)
(***************************************************************************)
NoArtist == <<>>
NameUnknownArtist == <<"u","n","k","n","o","w","n"," ","a","r","t","i","s","t">>
NameUnknownCaps == <<"U","n","k","n","o","w","n">>
NameBracketUnknown == <<"[","u","n","k","n","o","w","n","]">>
NameBracketUnknownArtistCaps ==
    <<"[","U","N","K","N","O","W","N"," ","A","R","T","I","S","T","]">>
NameAbba == <<"A","b","b","a">>

ArtistNames == {NoArtist, NameUnknownArtist, NameUnknownCaps, NameBracketUnknown,
                NameBracketUnknownArtistCaps, NameAbba}

InvalidArtistNames ==
    { <<"u","n","k","n","o","w","n"," ","a","r","t","i","s","t">>,
      <<"u","n","k","n","o","w","n">>,
      <<"[","u","n","k","n","o","w","n","]">>,
      <<"[","u","n","k","n","o","w","n"," ","a","r","t","i","s","t","]">> }

(***************************************************************************)
(* Tracks: the attributes the cache reads.                                 *)
(***************************************************************************)
Track(a, t, d, ts, n) ==
    [artist |-> a, title |-> t, duration |-> d, timestamp |-> ts, null |-> n]

TrackDomain ==
    [artist : ArtistNames, title : {"", "a"},
     duration : {kScrobbleMinLength - 1, kScrobbleMinLength},
     timestamp : {NoTime} \cup (0..MaxTime), null : BOOLEAN]

addMonths(t, n) == t + n

(***************************************************************************)
(* ScrobbleCachePrivate::isValid.  The result carries the value left in    *)
(* *v; Unwritten says that *v was not assigned.                            *)
(***************************************************************************)
Unwritten == "unwritten"

isValidSwapped(track, clock) ==
    IF ~(track.timestamp # NoTime)
        THEN [valid |-> FALSE, v |-> "NoTimestamp"]
    ELSE IF track.duration < kScrobbleMinLength
        THEN [valid |-> FALSE, v |-> "TooShort"]
    ELSE IF track.timestamp < Epoch2003
        THEN [valid |-> FALSE, v |-> "FromTheDistantPast"]
    ELSE IF track.timestamp > addMonths(clock, 1)
        THEN [valid |-> FALSE, v |-> "FromTheFuture"]
    ELSE IF track.title = ""
        THEN [valid |-> FALSE, v |-> "TrackNameMissing"]
    ELSE IF track.artist = NoArtist
        THEN [valid |-> FALSE, v |-> "ArtistNameMissing"]
    ELSE IF toLower(track.artist) \in InvalidArtistNames
        THEN [valid |-> FALSE, v |-> "ArtistInvalid"]
    ELSE [valid |-> TRUE, v |-> Unwritten]

isValid(track, clock) ==
    IF track.duration < kScrobbleMinLength
        THEN [valid |-> FALSE, v |-> "TooShort"]
    ELSE IF ~(track.timestamp # NoTime)
        THEN [valid |-> FALSE, v |-> "NoTimestamp"]
    ELSE IF track.timestamp > addMonths(clock, 1)
        THEN [valid |-> FALSE, v |-> "FromTheFuture"]
    ELSE IF track.timestamp < Epoch2003
        THEN [valid |-> FALSE, v |-> "FromTheDistantPast"]
    ELSE IF track.artist = NoArtist
        THEN [valid |-> FALSE, v |-> "ArtistNameMissing"]
    ELSE IF track.title = ""
        THEN [valid |-> FALSE, v |-> "TrackNameMissing"]
    ELSE IF toLower(track.artist) \in InvalidArtistNames
        THEN [valid |-> FALSE, v |-> "ArtistInvalid"]
    ELSE [valid |-> TRUE, v |-> Unwritten]

(***************************************************************************)
(* Track::operator== : value equality of the tracks' attributes.           *)
(***************************************************************************)
TrackEq(a, b) == a = b

(***************************************************************************)
(* The entries of m_tracks.  Next to the Track itself an entry records how *)
(* it came into the list (via) and what isValid answered for it at that    *)
(* moment (passed); neither is read by the program.                        *)
(***************************************************************************)
Entry(t, how, ok) == [track |-> t, via |-> how, passed |-> ok]

TracksOf(entries) == [k \in 1..Len(entries) |-> entries[k].track]

(***************************************************************************)
(* The persisted file.  Its text is kept as what QDomDocument::setContent  *)
(* makes of it: nothing (wellFormed = FALSE) or a root element with its    *)
(* attributes and child nodes.                                             *)
(***************************************************************************)
Usernames == {"alice", "bob"}
PathOf(username) == <<"runtimeData", username, "_subs_cache.xml">>
NoPath == <<>>
Paths == {PathOf(u) : u \in Usernames}

applicationName == "app"

NoFile ==
    [exists |-> FALSE, wellFormed |-> FALSE, root |-> "", product |-> "",
     version |-> "", children |-> <<>>]
GarbageFile ==
    [exists |-> TRUE, wellFormed |-> FALSE, root |-> "", product |-> "",
     version |-> "", children |-> <<>>]
Document(children) ==
    [exists |-> TRUE, wellFormed |-> TRUE, root |-> "submissions",
     product |-> applicationName, version |-> "2", children |-> children]

(***************************************************************************)
(* Track::toDomElement and Track::Track( QDomElement ).  An element holds  *)
(* the attributes but no null flag: a track built from an element is not   *)
(* the null track.                                                         *)
(***************************************************************************)
toDomElement(t) ==
    [nodeName |-> "track", artist |-> t.artist, title |-> t.title,
     duration |-> t.duration, timestamp |-> t.timestamp]

TrackFromElement(e) == Track(e.artist, e.title, e.duration, e.timestamp, FALSE)

OtherNode == [nodeName |-> "note", artist |-> NoArtist, title |-> "",
              duration |-> 0, timestamp |-> NoTime]

(***************************************************************************)
(* ScrobbleCachePrivate::read : the list m_tracks holds after reading the  *)
(* file f at wall-clock time clock.                                        *)
(***************************************************************************)
RECURSIVE readNodesSkipFirst(_, _, _)
readNodesSkipFirst(nodes, k, clock) ==
    IF k > Len(nodes) THEN <<>>
    ELSE IF nodes[k].nodeName = "track" /\ k > 1
         THEN <<Entry(TrackFromElement(nodes[k]), "read",
                      isValid(TrackFromElement(nodes[k]), clock).valid)>>
              \o readNodesSkipFirst(nodes, k + 1, clock)
         ELSE readNodesSkipFirst(nodes, k + 1, clock)

RECURSIVE readNodesValidated(_, _, _)
readNodesValidated(nodes, k, clock) ==
    IF k > Len(nodes) THEN <<>>
    ELSE IF nodes[k].nodeName = "track" /\ isValid(TrackFromElement(nodes[k]), clock).valid
         THEN <<Entry(TrackFromElement(nodes[k]), "read",
                      isValid(TrackFromElement(nodes[k]), clock).valid)>>
              \o readNodesValidated(nodes, k + 1, clock)
         ELSE readNodesValidated(nodes, k + 1, clock)

RECURSIVE readNodes(_, _, _)
readNodes(nodes, k, clock) ==
    IF k > Len(nodes) THEN <<>>
    ELSE IF nodes[k].nodeName = "track"
         THEN <<Entry(TrackFromElement(nodes[k]), "read",
                      isValid(TrackFromElement(nodes[k]), clock).valid)>>
              \o readNodes(nodes, k + 1, clock)
         ELSE readNodes(nodes, k + 1, clock)

read(f, clock) ==
    IF f.exists /\ f.wellFormed THEN readNodes(f.children, 1, clock) ELSE <<>>

(***************************************************************************)
(* ScrobbleCachePrivate::write : the file at m_path after writing the list *)
(* entries.  QFile::remove of an absent file leaves it absent.             *)
(***************************************************************************)
writeAllButLast(entries) ==
    IF Len(entries) = 0
    THEN NoFile
    ELSE Document([k \in 1..(Len(entries) - 1) |-> toDomElement(entries[k].track)])

writeTruncate(entries) ==
    IF Len(entries) = 0
    THEN GarbageFile
    ELSE Document([k \in 1..Len(entries) |-> toDomElement(entries[k].track)])

writeAlways(entries) ==
    Document([k \in 1..Len(entries) |-> toDomElement(entries[k].track)])

write(entries) ==
    IF Len(entries) = 0
    THEN NoFile
    ELSE Document([k \in 1..Len(entries) |-> toDomElement(entries[k].track)])

(***************************************************************************)
(* The loop of ScrobbleCache::add over the candidates from position k.     *)
(***************************************************************************)
RECURSIVE addLoopNoValidation(_, _, _, _)
addLoopNoValidation(entries, tracks, k, clock) ==
    IF k > Len(tracks) THEN entries
    ELSE IF tracks[k].null
         THEN addLoopNoValidation(entries, tracks, k + 1, clock)
    ELSE addLoopNoValidation(
             Append(entries, Entry(tracks[k], "add", isValid(tracks[k], clock).valid)),
             tracks, k + 1, clock)

RECURSIVE addLoopStopAtRejected(_, _, _, _)
addLoopStopAtRejected(entries, tracks, k, clock) ==
    IF k > Len(tracks) THEN entries
    ELSE IF ~isValid(tracks[k], clock).valid THEN entries
    ELSE IF tracks[k].null
         THEN addLoopStopAtRejected(entries, tracks, k + 1, clock)
    ELSE addLoopStopAtRejected(
             Append(entries, Entry(tracks[k], "add", isValid(tracks[k], clock).valid)),
             tracks, k + 1, clock)

RECURSIVE addLoop(_, _, _, _)
addLoop(entries, tracks, k, clock) ==
    IF k > Len(tracks) THEN entries
    ELSE IF ~isValid(tracks[k], clock).valid
         THEN addLoop(entries, tracks, k + 1, clock)
    ELSE IF tracks[k].null
         THEN addLoop(entries, tracks, k + 1, clock)
    ELSE addLoop(
             Append(entries, Entry(tracks[k], "add", isValid(tracks[k], clock).valid)),
             tracks, k + 1, clock)

(***************************************************************************)
(* QMutableListIterator<Track> over the list c: i is the number of items   *)
(* before the iterator's position, n the index of the item last jumped     *)
(* over (0: none, as after a remove).                                      *)
(***************************************************************************)
Iterator(c) == [c |-> c, i |-> 0, n |-> 0]

hasNext(it) == it.i < Len(it.c)

next(it) == [it EXCEPT !.n = it.i + 1, !.i = it.i + 1]

Erase(c, k) == [j \in 1..(Len(c) - 1) |-> IF j < k THEN c[j] ELSE c[j + 1]]

iterRemoveUnguarded(it) ==
    IF it.n # 0
    THEN [c |-> Erase(it.c, it.n), i |-> it.n - 1, n |-> 0]
    ELSE IF it.i < Len(it.c)
         THEN [it EXCEPT !.c = Erase(it.c, it.i + 1)]
         ELSE it

iterRemove(it) ==
    IF it.n # 0
    THEN [c |-> Erase(it.c, it.n), i |-> it.n - 1, n |-> 0]
    ELSE it

(***************************************************************************)
(* The loops of ScrobbleCache::remove: the inner one compares the track t  *)
(* last jumped over with toremove[x..], the outer one walks the list.      *)
(***************************************************************************)
RECURSIVE removeInnerAnyTrack(_, _, _, _)
removeInnerAnyTrack(it, t, toremove, x) ==
    IF x > Len(toremove) THEN it
    ELSE removeInnerAnyTrack(iterRemove(it), t, toremove, x + 1)

RECURSIVE removeInner(_, _, _, _)
removeInner(it, t, toremove, x) ==
    IF x > Len(toremove) THEN it
    ELSE IF TrackEq(toremove[x], t)
         THEN removeInner(iterRemove(it), t, toremove, x + 1)
         ELSE removeInner(it, t, toremove, x + 1)

RECURSIVE removeLoopFirstOnly(_, _)
removeLoopFirstOnly(it, toremove) ==
    IF ~hasNext(it) THEN it.c
    ELSE IF Len(removeInner(next(it), it.c[it.i + 1].track, toremove, 1).c) < Len(it.c)
         THEN removeInner(next(it), it.c[it.i + 1].track, toremove, 1).c
         ELSE removeLoopFirstOnly(
                  removeInner(next(it), it.c[it.i + 1].track, toremove, 1), toremove)

RECURSIVE removeLoop(_, _)
removeLoop(it, toremove) ==
    IF ~hasNext(it) THEN it.c
    ELSE removeLoop(removeInner(next(it), it.c[it.i + 1].track, toremove, 1), toremove)

removeReturnRemoved(before, after) == Len(before) - Len(after)

removeReturn(before, after) == Len(after)

(***************************************************************************)
(* The tracks and files the operations are exercised with.                 *)
(***************************************************************************)
TrackA == Track(NameAbba, "a", kScrobbleMinLength, Epoch2003, FALSE)
TrackB == Track(NameAbba, "b", kScrobbleMinLength, Epoch2003 + 1, FALSE)
TrackEmptyTitle == Track(NameAbba, "", kScrobbleMinLength, Epoch2003, FALSE)
TrackNull == Track(NameAbba, "a", kScrobbleMinLength, Epoch2003, TRUE)

AddUniverse == {TrackA, TrackB, TrackEmptyTitle, TrackNull}
RemoveUniverse == {TrackA, TrackB, TrackEmptyTitle}

SeqsUpTo(S, n) == UNION {[1..k -> S] : k \in 0..n}

InitialFiles ==
    {NoFile, GarbageFile, Document(<<OtherNode>>),
     Document(<<toDomElement(TrackA), OtherNode, toDomElement(TrackEmptyTitle)>>)}

Instances == {1, 2}

NoCache ==
    [alive |-> FALSE, m_username |-> "", m_path |-> NoPath, m_tracks |-> <<>>,
     born |-> [username |-> "", path |-> NoPath]]

NoResult == [valid |-> FALSE, v |-> Unwritten]

NoOp == [op |-> "none", c |-> 0, arg |-> <<>>, pre |-> <<>>, preFile |-> NoFile,
         ret |-> 0, out |-> NoResult, io |-> <<>>]

(***************************************************************************)
(* The file operations of a call, in the order the call makes them: a read *)
(* of the file, or a write that leaves content at the path (NoFile when    *)
(* the file is removed).  fileAfter is the file they leave behind.         *)
(***************************************************************************)
ReadIo(f) == [op |-> "read", content |-> f]
WriteIo(f) == [op |-> "write", content |-> f]

fileAfter(f, io) ==
    IF \E k \in 1..Len(io) : io[k].op = "write"
    THEN io[CHOOSE k \in 1..Len(io) :
                /\ io[k].op = "write"
                /\ \A j \in (k + 1)..Len(io) : io[j].op # "write"].content
    ELSE f

constructIoAndSave(f, clock) == <<ReadIo(f), WriteIo(write(read(f, clock)))>>

constructIo(f, clock) == <<ReadIo(f)>>

addIoPerItem(entries, tracks, clock) ==
    [k \in 1..Len(tracks) |->
        WriteIo(write(addLoop(entries, SubSeq(tracks, 1, k), 1, clock)))]

addIoSkipUnchanged(entries, tracks, clock) ==
    IF addLoop(entries, tracks, 1, clock) = entries
    THEN <<>>
    ELSE <<WriteIo(write(addLoop(entries, tracks, 1, clock)))>>

addIo(entries, tracks, clock) ==
    <<WriteIo(write(addLoop(entries, tracks, 1, clock)))>>

removeIoSkipUnchanged(entries, toremove) ==
    IF removeLoop(Iterator(entries), toremove) = entries
    THEN <<>>
    ELSE <<WriteIo(write(removeLoop(Iterator(entries), toremove)))>>

removeIo(entries, toremove) ==
    <<WriteIo(write(removeLoop(Iterator(entries), toremove)))>>

(***************************************************************************)
(* Before any Cache is constructed: alice's file holds any of the initial  *)
(* contents.                                                               *)
(***************************************************************************)
Init ==
    /\ now = Epoch2003
    /\ \E f \in InitialFiles :
           files = [p \in Paths |-> IF p = PathOf("alice") THEN f ELSE NoFile]
    /\ cache = [c \in Instances |-> NoCache]
    /\ last = NoOp

(***************************************************************************)
(* ScrobbleCache::ScrobbleCache( const QString& username ).  born keeps    *)
(* the username and path the object was constructed with; the program does *)
(* not read it.                                                            *)
(***************************************************************************)
Constructed(username, fs, clock) ==
    [alive |-> TRUE, m_username |-> username, m_path |-> PathOf(username),
     m_tracks |-> read(fs[PathOf(username)], clock),
     born |-> [username |-> username, path |-> PathOf(username)]]

Construct(c, username) ==
    /\ last = NoOp
    /\ username # ""
    /\ cache' = [cache EXCEPT ![c] = Constructed(username, files, now)]
    /\ files' = [files EXCEPT ![PathOf(username)] =
                     fileAfter(@, constructIo(@, now))]
    /\ last' = [op |-> "construct", c |-> c, arg |-> <<>>, pre |-> <<>>,
                preFile |-> files[PathOf(username)], ret |-> 0, out |-> NoResult,
                io |-> constructIo(files[PathOf(username)], now)]
    /\ UNCHANGED now

(***************************************************************************)
(* ScrobbleCache::add                                                      *)
(***************************************************************************)
AddAliased(c, tracks) ==
    /\ last = NoOp
    /\ cache[c].alive
    /\ LET m_tracks == addLoop(cache[c].m_tracks, tracks, 1, now)
           io == addIo(cache[c].m_tracks, tracks, now)
       IN  /\ Len(m_tracks) <= MaxStored
           /\ cache' = [x \in Instances |->
                           IF /\ cache[x].alive
                              /\ cache[x].m_path = cache[c].m_path
                              /\ cache[x].m_tracks = cache[c].m_tracks
                           THEN [cache[x] EXCEPT !.m_tracks = m_tracks]
                           ELSE cache[x]]
           /\ files' = [files EXCEPT ![cache[c].m_path] = fileAfter(@, io)]
           /\ last' = [op |-> "add", c |-> c, arg |-> tracks,
                       pre |-> cache[c].m_tracks,
                       preFile |-> files[cache[c].m_path], ret |-> 0,
                       out |-> NoResult, io |-> io]
    /\ UNCHANGED now

Add(c, tracks) ==
    /\ last = NoOp
    /\ cache[c].alive
    /\ LET m_tracks == addLoop(cache[c].m_tracks, tracks, 1, now)
           io == addIo(cache[c].m_tracks, tracks, now)
       IN  /\ Len(m_tracks) <= MaxStored
           /\ cache' = [cache EXCEPT ![c].m_tracks = m_tracks]
           /\ files' = [files EXCEPT ![cache[c].m_path] = fileAfter(@, io)]
           /\ last' = [op |-> "add", c |-> c, arg |-> tracks,
                       pre |-> cache[c].m_tracks,
                       preFile |-> files[cache[c].m_path], ret |-> 0,
                       out |-> NoResult, io |-> io]
    /\ UNCHANGED now

(***************************************************************************)
(* ScrobbleCache::remove                                                   *)
(***************************************************************************)
Remove(c, toremove) ==
    /\ last = NoOp
    /\ cache[c].alive
    /\ LET m_tracks == removeLoop(Iterator(cache[c].m_tracks), toremove)
           io == removeIo(cache[c].m_tracks, toremove)
       IN  /\ cache' = [cache EXCEPT ![c].m_tracks = m_tracks]
           /\ files' = [files EXCEPT ![cache[c].m_path] = fileAfter(@, io)]
           /\ last' = [op |-> "remove", c |-> c, arg |-> toremove,
                       pre |-> cache[c].m_tracks,
                       preFile |-> files[cache[c].m_path],
                       ret |-> removeReturn(cache[c].m_tracks, m_tracks),
                       out |-> NoResult, io |-> io]
    /\ UNCHANGED now

(***************************************************************************)
(* The call returns: the caller has its result and is free to make the     *)
(* next call.  last describes the call just completed until then.          *)
(***************************************************************************)
Return ==
    /\ last # NoOp
    /\ last' = NoOp
    /\ UNCHANGED <<now, files, cache>>

(***************************************************************************)
(* The wall clock moves, forwards or (when it is set) backwards.           *)
(***************************************************************************)
Tick ==
    /\ last = NoOp
    /\ \E t \in Clock \ {now} : now' = t
    /\ UNCHANGED <<files, cache, last>>

(***************************************************************************)
(* ScrobbleCache::ScrobbleCache( const ScrobbleCache& that )               *)
(***************************************************************************)
CopyConstruct(c, that) ==
    /\ last = NoOp
    /\ c # that
    /\ cache[that].alive
    /\ cache' = [cache EXCEPT ![c] =
                     [cache[that] EXCEPT !.born = [username |-> cache[that].m_username,
                                                   path |-> cache[that].m_path]]]
    /\ last' = [op |-> "copy", c |-> c, arg |-> <<>>, pre |-> <<>>,
                preFile |-> files[cache[that].m_path], ret |-> that,
                out |-> NoResult, io |-> <<>>]
    /\ UNCHANGED <<now, files>>

(***************************************************************************)
(* ScrobbleCache::operator=                                                *)
(***************************************************************************)
AssignTracksOnly(c, that) ==
    /\ last = NoOp
    /\ cache[c].alive
    /\ cache[that].alive
    /\ cache' = [cache EXCEPT ![c].m_tracks = cache[that].m_tracks]
    /\ last' = [op |-> "assign", c |-> c, arg |-> <<>>, pre |-> cache[c].m_tracks,
                preFile |-> files[cache[that].m_path], ret |-> that,
                out |-> NoResult, io |-> <<>>]
    /\ UNCHANGED <<now, files>>

Assign(c, that) ==
    /\ last = NoOp
    /\ cache[c].alive
    /\ cache[that].alive
    /\ cache' = [cache EXCEPT ![c].m_username = cache[that].m_username,
                              ![c].m_path = cache[that].m_path,
                              ![c].m_tracks = cache[that].m_tracks]
    /\ last' = [op |-> "assign", c |-> c, arg |-> <<>>, pre |-> cache[c].m_tracks,
                preFile |-> files[cache[that].m_path], ret |-> that,
                out |-> NoResult, io |-> <<>>]
    /\ UNCHANGED <<now, files>>

(***************************************************************************)
(* ScrobbleCache::tracks, path and username                                *)
(***************************************************************************)
tracks(c) == TracksOf(cache[c].m_tracks)
path(c) == cache[c].m_path
username(c) == cache[c].m_username

(***************************************************************************)
(* A call of isValid on its own, for the claims about the Validator.       *)
(***************************************************************************)
Validate(track) ==
    /\ last = NoOp
    /\ last' = [op |-> "isValid", c |-> 0, arg |-> <<track>>, pre |-> <<>>,
                preFile |-> NoFile, ret |-> 0, out |-> isValid(track, now),
                io |-> <<>>]
    /\ UNCHANGED <<now, files, cache>>

(***************************************************************************)
(* One Cache, the only user of alice's file.                               *)
(***************************************************************************)
Next ==
    \/ Construct(1, "alice")
    \/ \E batch \in SeqsUpTo(AddUniverse, MaxBatch) : Add(1, batch)
    \/ \E targets \in SeqsUpTo(RemoveUniverse, MaxTargets) : Remove(1, targets)
    \/ Return

Spec == Init /\ [][Next]_vars

(***************************************************************************)
(* Two Caches over the files of two users, with copies and assignments.    *)
(***************************************************************************)
MaxShared == 2

SharedUniverse == {TrackA, TrackEmptyTitle}

InitShared ==
    /\ now = Epoch2003
    /\ \E f \in InitialFiles :
           files = [p \in Paths |-> IF p = PathOf("alice") THEN f ELSE NoFile]
    /\ cache = [c \in Instances |-> NoCache]
    /\ last = NoOp

NextShared ==
    \/ \E c \in Instances, u \in Usernames : Construct(c, u)
    \/ \E c \in Instances :
           \E ts \in {s \in SeqsUpTo(SharedUniverse, 1) :
                         Len(cache[c].m_tracks) + Len(s) <= MaxShared} : Add(c, ts)
    \/ \E c \in Instances, ts \in SeqsUpTo(SharedUniverse, 1) : Remove(c, ts)
    \/ \E c \in Instances, that \in Instances : CopyConstruct(c, that)
    \/ \E c \in Instances, that \in Instances : Assign(c, that)
    \/ Return

SpecShared == InitShared /\ [][NextShared]_vars

(***************************************************************************)
(* The Validator alone, over every track of TrackDomain and every time.    *)
(***************************************************************************)
InitValid ==
    /\ now \in Clock
    /\ files = [p \in Paths |-> NoFile]
    /\ cache = [c \in Instances |-> NoCache]
    /\ last = NoOp

NextValid ==
    \/ \E track \in TrackDomain : Validate(track)
    \/ Return
    \/ Tick

SpecValid == InitValid /\ [][NextValid]_vars

(***************************************************************************)
(*                              Claims                                     *)
(***************************************************************************)

(* The call just completed was made on instance last.c. *)
Did(op) == last.op = op

MatchesAny(t, targets) == \E x \in 1..Len(targets) : TrackEq(targets[x], t)

\* C1: remove returns the number of tracks left in tracks() after the
\* removal, not the number of tracks it removed.
C1_RemoveReturnsRemaining ==
    Did("remove") => last.ret = Len(tracks(last.c))

C1_Witness ==
    /\ Did("remove")
    /\ Len(last.pre) = 3
    /\ Len(tracks(last.c)) = 2
    /\ last.ret = 2

\* C2: after add, tracks() is the list before the call followed by exactly
\* the candidates that pass the Validator and are not the null track, in
\* input order; a rejected candidate does not stop the later ones.
C2_Accepted(t) == isValid(t, now).valid /\ ~t.null

C2_AddAppendsAccepted ==
    Did("add") =>
        /\ tracks(last.c) = TracksOf(last.pre) \o SelectSeq(last.arg, C2_Accepted)
        /\ SubSeq(cache[last.c].m_tracks, 1, Len(last.pre)) = last.pre

C2_Witness ==
    /\ Did("add")
    /\ last.arg = <<TrackA, TrackEmptyTitle, TrackB>>
    /\ Len(last.pre) = 1
    /\ tracks(last.c) = TracksOf(last.pre) \o <<TrackA, TrackB>>

\* C3: after every add and every remove of a single Cache the persisted
\* file exists iff the in-memory list is non-empty; a save of an empty
\* list deletes an existing file and never leaves an empty document.
C3_FileExistsIffNonEmpty ==
    (Did("add") \/ Did("remove")) =>
        /\ files[path(last.c)].exists <=> Len(tracks(last.c)) > 0
        /\ files[path(last.c)].exists =>
               /\ files[path(last.c)].wellFormed
               /\ Len(files[path(last.c)].children) > 0

C3_Witness ==
    /\ Did("add")
    /\ last.preFile.exists
    /\ Len(tracks(last.c)) = 0
    /\ ~files[path(last.c)].exists

\* C4: round trip: after valid tracks were added, a fresh Cache
\* constructed for the same username has the same tracks in the same order.
C4_RoundTrip ==
    Did("add") =>
        TracksOf(Constructed(username(last.c), files, now).m_tracks) = tracks(last.c)

C4_Witness ==
    /\ Did("add")
    /\ Len(last.arg) >= 2
    /\ Len(tracks(last.c)) = Len(last.pre) + 2
    /\ tracks(last.c)[Len(last.pre) + 1] # tracks(last.c)[Len(last.pre) + 2]
    /\ TracksOf(Constructed(username(last.c), files, now).m_tracks) = tracks(last.c)

\* C5 (as stated): every element of tracks passed the Validator at the
\* moment it was inserted into the list, whatever the persisted file held.
C5_AllPassedAtInsertion ==
    \A c \in Instances : \A k \in 1..Len(cache[c].m_tracks) :
        cache[c].m_tracks[k].passed

\* C5 (amended): every element of tracks that add inserted passed the
\* Validator at the moment it was inserted; the elements the constructor
\* loads from the persisted file are inserted without validation.
C5_AddedPassedAtInsertion ==
    \A c \in Instances : \A k \in 1..Len(cache[c].m_tracks) :
        cache[c].m_tracks[k].via = "add" => cache[c].m_tracks[k].passed

C5_Witness ==
    /\ Did("assign")
    /\ \E k \in 1..Len(cache[last.c].m_tracks) :
           /\ cache[last.c].m_tracks[k].via = "add"
           /\ cache[last.c].m_tracks[k].passed
    /\ \E k \in 1..Len(cache[last.c].m_tracks) :
           /\ cache[last.c].m_tracks[k].via = "read"
           /\ ~cache[last.c].m_tracks[k].passed

\* C6: remove deletes a stored track at most once however many targets
\* equal it, and deletes no neighbour that equals no target: the survivors
\* are exactly the stored tracks equal to no target, in their order.
C6_Survives(e) == ~MatchesAny(e.track, last.arg)

C6_RemoveAtMostOnce ==
    Did("remove") => cache[last.c].m_tracks = SelectSeq(last.pre, C6_Survives)

C6_Witness ==
    /\ Did("remove")
    /\ Len(last.arg) = 2
    /\ last.arg[1] = last.arg[2]
    /\ \E k \in 1..(Len(last.pre) - 1) :
           /\ last.pre[k].track = last.arg[1]
           /\ last.pre[k + 1].track # last.arg[1]
    /\ Len(cache[last.c].m_tracks) = Len(last.pre) - 1

\* C7: after remove no element of tracks() is value-equal to any target:
\* every occurrence is deleted, duplicates of the same track included.
C7_NoTargetLeft ==
    Did("remove") =>
        \A k \in 1..Len(tracks(last.c)) : ~MatchesAny(tracks(last.c)[k], last.arg)

C7_Witness ==
    /\ Did("remove")
    /\ \E j, k \in 1..Len(last.pre) :
           /\ j < k
           /\ last.pre[j].track = last.pre[k].track
           /\ MatchesAny(last.pre[j].track, last.arg)
    /\ Len(tracks(last.c)) = Len(last.pre) - 2

\* C8: remove with no target value-equal to any stored track (an empty
\* target list included) leaves tracks() as it was and returns its count.
C8_NothingMatches ==
    \A k \in 1..Len(last.pre) : ~MatchesAny(last.pre[k].track, last.arg)

C8_RemoveAbsentIsNoOp ==
    (Did("remove") /\ C8_NothingMatches) =>
        /\ cache[last.c].m_tracks = last.pre
        /\ last.ret = Len(last.pre)

C8_Witness ==
    /\ Did("remove")
    /\ C8_NothingMatches
    /\ Len(last.arg) > 0
    /\ Len(last.pre) > 0
    /\ cache[last.c].m_tracks = last.pre

\* C9: after a remove that leaves the store empty the persisted file no
\* longer exists, and a fresh Cache for that username has no tracks.
C9_EmptyAfterRemove ==
    (Did("remove") /\ Len(tracks(last.c)) = 0) =>
        /\ ~files[path(last.c)].exists
        /\ Len(Constructed(username(last.c), files, now).m_tracks) = 0

C9_Witness ==
    /\ Did("remove")
    /\ Len(last.pre) > 0
    /\ last.preFile.exists
    /\ Len(tracks(last.c)) = 0
    /\ ~files[path(last.c)].exists

\* C10: isValid reports exactly one reason, the first that applies in the
\* order TooShort, NoTimestamp, FromTheFuture, FromTheDistantPast,
\* ArtistNameMissing, TrackNameMissing, ArtistInvalid; a track that
\* violates no rule is valid and no reason is written.
C10_Order ==
    <<"TooShort", "NoTimestamp", "FromTheFuture", "FromTheDistantPast",
      "ArtistNameMissing", "TrackNameMissing", "ArtistInvalid">>

C10_Violates(t, rule) ==
    CASE rule = "TooShort" -> t.duration < kScrobbleMinLength
      [] rule = "NoTimestamp" -> t.timestamp = NoTime
      [] rule = "FromTheFuture" -> t.timestamp # NoTime /\ t.timestamp > now + 1
      [] rule = "FromTheDistantPast" -> t.timestamp # NoTime /\ t.timestamp < Epoch2003
      [] rule = "ArtistNameMissing" -> t.artist = NoArtist
      [] rule = "TrackNameMissing" -> t.title = ""
      [] rule = "ArtistInvalid" ->
             \E name \in InvalidArtistNames :
                 /\ Len(name) = Len(t.artist)
                 /\ \A k \in 1..Len(name) :
                        \/ name[k] = t.artist[k]
                        \/ \E u \in 1..Len(UpperChars) :
                               UpperChars[u] = t.artist[k] /\ LowerChars[u] = name[k]

C10_Violated(t) == {r \in 1..Len(C10_Order) : C10_Violates(t, C10_Order[r])}

C10_FirstReasonWins ==
    Did("isValid") =>
        IF C10_Violated(last.arg[1]) = {}
        THEN last.out.valid /\ last.out.v = Unwritten
        ELSE /\ ~last.out.valid
             /\ \E r \in C10_Violated(last.arg[1]) :
                    /\ \A q \in C10_Violated(last.arg[1]) : r <= q
                    /\ last.out.v = C10_Order[r]

C10_Witness ==
    /\ Did("isValid")
    /\ Cardinality(C10_Violated(last.arg[1])) >= 3
    /\ C10_Violates(last.arg[1], "FromTheFuture")
    /\ C10_Violates(last.arg[1], "ArtistInvalid")
    /\ last.out.v = "FromTheFuture"

\* C11: constructing a Cache over a file that does not exist or does not
\* parse yields an empty tracks() and a usable Cache; construction only
\* reads: it never creates, rewrites or deletes the file.
C11_ConstructOnlyReads ==
    Did("construct") =>
        /\ cache[last.c].alive
        /\ files[path(last.c)] = last.preFile
        /\ \A k \in 1..Len(last.io) : last.io[k].op = "read"
        /\ (~last.preFile.exists \/ ~last.preFile.wellFormed) =>
               Len(tracks(last.c)) = 0
        /\ ~last.preFile.exists => ~files[path(last.c)].exists

C11_Witness ==
    /\ Did("construct")
    /\ last.preFile = GarbageFile
    /\ Len(tracks(last.c)) = 0
    /\ files[path(last.c)] = GarbageFile

\* C12 (as stated): after any sequence of add, remove, accessors and
\* value-copy assignments, username() and path() of a Cache are the values
\* fixed at its construction.
C12_UsernamePathImmutable ==
    \A c \in Instances :
        cache[c].alive =>
            /\ username(c) = cache[c].born.username
            /\ path(c) = cache[c].born.path

\* C12 (amended): add and remove (and the accessors, which change nothing)
\* leave username() and path() of every Cache as they were; a value-copy
\* assignment replaces them with the username and path of its source.
C12_OnlyAssignmentChangesIdentity ==
    [][/\ last'.op \in {"add", "remove"} =>
              \A c \in Instances :
                  /\ cache'[c].m_username = cache[c].m_username
                  /\ cache'[c].m_path = cache[c].m_path
       /\ last'.op = "assign" =>
              /\ cache'[last'.c].m_username = cache[last'.ret].m_username
              /\ cache'[last'.c].m_path = cache[last'.ret].m_path]_vars

C12_Witness ==
    /\ Did("assign")
    /\ username(last.c) # cache[last.c].born.username
    /\ path(last.c) # cache[last.c].born.path
    /\ username(last.c) = username(last.ret)
    /\ path(last.c) = path(last.ret)

\* C13: after copy-constructing or assigning Cache B from Cache A, B has
\* A's username, path and track list and A is as it was; a later add or
\* remove on one Cache leaves the in-memory tracks(), username() and path()
\* of every other Cache unchanged.
C13_ValueCopyIndependence ==
    [][/\ last'.op \in {"copy", "assign"} =>
              /\ cache'[last'.c].m_username = cache[last'.ret].m_username
              /\ cache'[last'.c].m_path = cache[last'.ret].m_path
              /\ cache'[last'.c].m_tracks = cache[last'.ret].m_tracks
              /\ \A c \in Instances \ {last'.c} : cache'[c] = cache[c]
       /\ last'.op \in {"add", "remove"} =>
              \A c \in Instances \ {last'.c} : cache'[c] = cache[c]]_vars

C13_Witness ==
    /\ Did("add")
    /\ username(last.c) # cache[last.c].born.username
    /\ \E o \in Instances \ {last.c} :
           /\ cache[o].alive
           /\ path(o) = path(last.c)
           /\ cache[o].m_tracks = last.pre
    /\ Len(last.pre) > 0
    /\ last.pre[1].via = "add"
    /\ Len(tracks(last.c)) > Len(last.pre)

\* C14: every add and every remove saves exactly once, after the whole
\* batch (or scan) has been processed, so that the one save holds the
\* final list; also for an empty input and for an add that accepts nothing.
C14_Saves == {k \in 1..Len(last.io) : last.io[k].op = "write"}

C14_SavesExactlyOnce ==
    (Did("add") \/ Did("remove")) =>
        /\ Cardinality(C14_Saves) = 1
        /\ last.io[Len(last.io)].op = "write"
        /\ last.io[Len(last.io)].content.exists <=> Len(tracks(last.c)) > 0
        /\ Len(last.io[Len(last.io)].content.children) = Len(tracks(last.c))
        /\ \A k \in 1..Len(tracks(last.c)) :
               last.io[Len(last.io)].content.children[k] =
                   toDomElement(tracks(last.c)[k])

C14_Witness ==
    /\ Did("add")
    /\ last.arg = <<TrackEmptyTitle, TrackNull>>
    /\ Len(last.pre) > 0
    /\ cache[last.c].m_tracks = last.pre
    /\ Cardinality(C14_Saves) = 1

(***************************************************************************)
(* One Cache under a moving clock, with a track that is in the future at   *)
(* time Epoch2003 and not from Epoch2003 + 1 on.                           *)
(***************************************************************************)
MaxLate == 2

TrackLate == Track(NameAbba, "l", kScrobbleMinLength, Epoch2003 + 2, FALSE)

ClockUniverse == {TrackA, TrackLate}

InitClock ==
    /\ now \in Clock
    /\ \E f \in InitialFiles :
           files = [p \in Paths |-> IF p = PathOf("alice") THEN f ELSE NoFile]
    /\ cache = [c \in Instances |-> NoCache]
    /\ last = NoOp

NextClock ==
    \/ Construct(1, "alice")
    \/ \E batch \in SeqsUpTo(ClockUniverse, MaxLate) : Add(1, batch)
    \/ \E targets \in SeqsUpTo(ClockUniverse, MaxLate) : Remove(1, targets)
    \/ Return
    \/ Tick

SpecClock == InitClock /\ [][NextClock]_vars

\* C15: validation happens only in add: a stored track stays in tracks()
\* through later adds, removes that do not target it and a reload by a
\* fresh Cache, whatever the clock has become; load and save do not
\* evaluate the Validator again.
C15_AcceptedStays ==
    [][cache[1].alive =>
          \A k \in 1..Len(cache[1].m_tracks) :
              \/ /\ last'.op = "remove"
                 /\ MatchesAny(cache[1].m_tracks[k].track, last'.arg)
              \/ \E j \in 1..Len(cache'[1].m_tracks) :
                     cache'[1].m_tracks[j].track = cache[1].m_tracks[k].track]_vars

C15_Witness ==
    /\ Did("construct")
    /\ isValid(TrackLate, now).v = "FromTheFuture"
    /\ \E k \in 1..Len(cache[1].m_tracks) :
           /\ cache[1].m_tracks[k].track = TrackLate
           /\ cache[1].m_tracks[k].via = "read"

\* C16: with Caches that share a path the last writer wins, undetected:
\* after every add or remove the file holds exactly the list of the Cache
\* that made the call (absent if that list is empty) whatever another Cache
\* saved before, and nothing else changes the files.
C16_LastWriterWins ==
    [][/\ last'.op \in {"add", "remove"} =>
              /\ files'[cache'[last'.c].m_path].exists <=>
                     Len(cache'[last'.c].m_tracks) > 0
              /\ Len(files'[cache'[last'.c].m_path].children) =
                     Len(cache'[last'.c].m_tracks)
              /\ \A k \in 1..Len(cache'[last'.c].m_tracks) :
                     files'[cache'[last'.c].m_path].children[k] =
                         toDomElement(cache'[last'.c].m_tracks[k].track)
              /\ \A p \in Paths \ {cache'[last'.c].m_path} : files'[p] = files[p]
       /\ last'.op \notin {"add", "remove"} => files' = files]_vars

C16_Witness ==
    /\ Did("remove")
    /\ Len(last.pre) = 0
    /\ last.preFile.exists
    /\ ~files[path(last.c)].exists
    /\ \E o \in Instances \ {last.c} :
           /\ cache[o].alive
           /\ path(o) = path(last.c)
           /\ Len(cache[o].m_tracks) > 0
           /\ cache[o].m_tracks[1].via = "add"
           /\ last.preFile.children =
                  [k \in 1..Len(cache[o].m_tracks) |->
                      toDomElement(cache[o].m_tracks[k].track)]

\* C17: for one Cache that is the only user of its file, after construction
\* and after every add and remove, the tracks a load of the file would
\* produce (none when it is absent or unparseable) are tracks(), in order.
C17_MemoryDiskAgree ==
    cache[1].alive => TracksOf(read(files[path(1)], now)) = tracks(1)

C17_Witness ==
    /\ Did("remove")
    /\ Len(tracks(1)) > 0
    /\ Len(last.pre) > Len(tracks(1))
    /\ TracksOf(read(files[path(1)], now)) = tracks(1)

\* C18: a Cache constructed over an existing file that is unparseable or
\* holds no track record starts empty, and its first add or remove that
\* leaves the list empty deletes that file although nothing was stored.
C18_NoTrackRecord(f) ==
    \/ ~f.wellFormed
    \/ \A k \in 1..Len(f.children) : f.children[k].nodeName # "track"

C18_EmptySaveDeletesFile ==
    /\ (Did("construct") /\ last.preFile.exists /\ C18_NoTrackRecord(last.preFile)) =>
           Len(tracks(last.c)) = 0
    /\ ((Did("add") \/ Did("remove")) /\ Len(last.pre) = 0 /\ last.preFile.exists
            /\ Len(tracks(last.c)) = 0) =>
           ~files[path(last.c)].exists

C18_Witness ==
    /\ Did("add")
    /\ last.arg = <<TrackEmptyTitle>>
    /\ Len(last.pre) = 0
    /\ last.preFile = GarbageFile
    /\ Len(tracks(last.c)) = 0
    /\ ~files[path(last.c)].exists

====
